---- MODULE Spec2Model ----
(***************************************************************************)
(* A model of the Git object viewer extension (src/extension.js):          *)
(*   - parseGitObject: read, inflate, header split, size check             *)
(*   - parseTreeObject: the tree entry loop                                *)
(*   - GitObjectTreeDataProvider.getChildren and                           *)
(*     GitObjectContentProvider.provideTextDocumentContent                 *)
(* Buffers are sequences of byte values (0..255); JavaScript strings are   *)
(* sequences of UTF-16 code units.  Operators that mirror a JavaScript     *)
(* library call keep its 0-based index convention.                         *)
(***************************************************************************)
EXTENDS Integers, Sequences, FiniteSets, TLC

VARIABLES
    file,        \* decoder input: what the disk and zlib yield for one object file
    dec,         \* the state of one parseGitObject call
    parts,       \* tree input: the pieces the payload was assembled from
    content,     \* parseTreeObject: its argument
    offset,      \* parseTreeObject: the read cursor
    entries,     \* parseTreeObject: the entries array
    cursors,     \* parseTreeObject: the values offset took in the latest iteration
    tpc,         \* parseTreeObject: "loop" or "returned"
    treeText,    \* parseTreeObject: the returned string
    disk,        \* view: per listed file, what the disk and zlib yield
    objectsDir,  \* view: whether .git/objects exists
    element,     \* view: the tree item getChildren was last called with
    tasks,       \* view: per listed file, the state of its decode
    items,       \* view: per listed file, the item its async callback returned
    children,    \* view: the value getChildren's promise resolved with
    completed,   \* view: the order in which the files' decodes finished
    opened       \* view: the last document the content provider produced

vars == <<file, dec, parts, content, offset, entries, cursors, tpc, treeText,
          disk, objectsDir, element, tasks, items, children, completed, opened>>

decVars  == <<file, dec>>
treeVars == <<parts, content, offset, entries, cursors, tpc, treeText>>
viewVars == <<disk, objectsDir, element, tasks, items, children, completed, opened>>

(***************************************************************************)
(* Bounds of the model.                                                    *)
(***************************************************************************)
\* the number of pieces (well-formed entries or raw chunks) of a tree payload
MaxParts == 2
\* the number of files in an object directory
MaxFiles == 2

(***************************************************************************)
(* JavaScript library calls.                                               *)
(***************************************************************************)
MinOf(S) == CHOOSE x \in S : \A y \in S : x <= y

\* Buffer.indexOf(value, byteOffset): the first 0-based index >= from, or -1
IndexOf(buf, value, from) ==
    LET hits == {i \in from .. (Len(buf) - 1) : buf[i + 1] = value}
    IN  IF hits = {} THEN -1 ELSE MinOf(hits)

\* the index normalisation of Buffer.slice and String.substring's clamping
ClampIndex(i, len) ==
    IF i < 0 THEN (IF len + i < 0 THEN 0 ELSE len + i)
    ELSE IF i > len THEN len ELSE i

\* Buffer.slice(start, end): negative indices count from the end
BufSlice(buf, start, end) ==
    LET s == ClampIndex(start, Len(buf))
        e == ClampIndex(end, Len(buf))
    IN  IF e <= s THEN <<>> ELSE SubSeq(buf, s + 1, e)

\* Buffer.slice(start)
BufSliceFrom(buf, start) == BufSlice(buf, start, Len(buf))

\* String.substring(start, end) for 0 <= start <= end
Substring(str, start, end) ==
    LET s == IF start > Len(str) THEN Len(str) ELSE start
        e == IF end > Len(str) THEN Len(str) ELSE end
    IN  IF e <= s THEN <<>> ELSE SubSeq(str, s + 1, e)

\* Buffer.toString(): UTF-8 decoding.  An ASCII byte is its own code unit; a
\* byte that can never be part of a well-formed sequence (0xF8..0xFF) decodes
\* to U+FFFD.  The model's alphabets hold no other byte above 0x7F.
Utf8ToString(buf) ==
    [i \in 1 .. Len(buf) |-> IF buf[i] < 128 THEN buf[i] ELSE 65533]

\* String.split(sep) for a one-character separator
RECURSIVE Split(_, _)
Split(str, sep) ==
    LET k == IndexOf(str, sep, 0)
    IN  IF k = -1 THEN <<str>>
        ELSE <<SubSeq(str, 1, k)>> \o Split(SubSeq(str, k + 2, Len(str)), sep)

\* Array.join(sep)
RECURSIVE Join(_, _)
Join(strs, sep) ==
    IF Len(strs) = 0 THEN <<>>
    ELSE IF Len(strs) = 1 THEN strs[1]
    ELSE strs[1] \o sep \o Join(Tail(strs), sep)

\* String.padEnd(n): pad with spaces up to n code units
PadEnd(str, n) ==
    IF Len(str) >= n THEN str ELSE str \o [i \in 1 .. (n - Len(str)) |-> 32]

\* one hexadecimal digit, lowercase
HexDigit(d) == IF d < 10 THEN 48 + d ELSE 87 + d

\* Buffer.toString("hex")
ToHex(buf) ==
    [i \in 1 .. (2 * Len(buf)) |->
        IF i % 2 = 1 THEN HexDigit(buf[(i + 1) \div 2] \div 16)
        ELSE HexDigit(buf[i \div 2] % 16)]

\* the decimal digits of a non-negative integer, as a template literal prints it
RECURSIVE NumToString(_)
NumToString(n) ==
    IF n < 10 THEN <<48 + n>> ELSE NumToString(n \div 10) \o <<48 + (n % 10)>>

IsDigit(c) == c >= 48 /\ c <= 57

\* the white space parseInt skips (the ones below U+0080, and U+00A0)
IsWhiteSpace(c) == c \in {9, 10, 11, 12, 13, 32, 160}

RECURSIVE SkipWhiteSpace(_)
SkipWhiteSpace(str) ==
    IF Len(str) > 0 /\ IsWhiteSpace(str[1]) THEN SkipWhiteSpace(Tail(str)) ELSE str

RECURSIVE DigitPrefix(_)
DigitPrefix(str) ==
    IF Len(str) > 0 /\ IsDigit(str[1]) THEN <<str[1]>> \o DigitPrefix(Tail(str))
    ELSE <<>>

RECURSIVE DigitsValue(_)
DigitsValue(ds) ==
    IF Len(ds) = 0 THEN 0
    ELSE 10 * DigitsValue(SubSeq(ds, 1, Len(ds) - 1)) + (ds[Len(ds)] - 48)

\* parseInt(str, 10): skip white space, an optional sign, the longest prefix
\* of digits; NaN when there is none.  -0 and 0 are the same number to !==.
ParseInt(str) ==
    LET t      == SkipWhiteSpace(str)
        signed == Len(t) > 0 /\ t[1] \in {43, 45}
        body   == IF signed THEN Tail(t) ELSE t
        ds     == DigitPrefix(body)
        v      == DigitsValue(ds)
    IN  IF Len(ds) = 0 THEN [nan |-> TRUE, val |-> 0]
        ELSE [nan |-> FALSE, val |-> IF signed /\ t[1] = 45 THEN 0 - v ELSE v]

\* what parseInt makes of the value undefined: the string "undefined"
UndefinedText == <<117, 110, 100, 101, 102, 105, 110, 101, 100>>

(***************************************************************************)
(* parseGitObject: a promise settled from two nested callbacks.            *)
(***************************************************************************)
NoObject == [type |-> <<>>, size |-> 0, content |-> <<>>]

\* new Promise(...): nothing settled, no step run
NewDecode ==
    [pc |-> "idle", path |-> <<>>, state |-> "pending", resolveCalls |-> 0,
     rejectCalls |-> 0, value |-> NoObject, error |-> "", steps |-> {}]

\* reject(err): a promise keeps its first settlement
reject(st, err) ==
    [st EXCEPT !.rejectCalls = @ + 1,
               !.state = IF st.state = "pending" THEN "rejected" ELSE @,
               !.error = IF st.state = "pending" THEN err ELSE @]

\* resolve(value)
resolve(st, obj) ==
    [st EXCEPT !.resolveCalls = @ + 1,
               !.state = IF st.state = "pending" THEN "fulfilled" ELSE @,
               !.value = IF st.state = "pending" THEN obj ELSE @]

Ran(st, step) == [st EXCEPT !.steps = @ \cup {step}]

\* the call itself: the promise is created and fs.readFile is issued
CallParseGitObject(objectPath) ==
    [NewDecode EXCEPT !.pc = "readFile", !.path = objectPath, !.steps = {"readFile"}]

\* fs.readFile's callback
ReadFileCallback(st, f) ==
    IF f.readErr
    THEN [reject(st, "read error") EXCEPT !.pc = "done"]
    ELSE [Ran(st, "inflate") EXCEPT !.pc = "inflate"]

\* a frame of zlib.inflate's callback: the promise, whether the callback has
\* returned, and its locals
NewFrame(st) ==
    [st |-> st, ret |-> FALSE, nullByteIndex |-> -1, header |-> <<>>,
     content |-> <<>>, type |-> <<>>, size |-> [nan |-> TRUE, val |-> 0]]

\* if (err) return reject(err);
InflateErrGuard(fr, f) ==
    IF f.inflateErr
    THEN [fr EXCEPT !.st = reject(fr.st, "inflate error"), !.ret = TRUE]
    ELSE fr

\* const nullByteIndex = decompressedData.indexOf(0);
LocateNullByte(fr, data) ==
    [fr EXCEPT !.st = Ran(fr.st, "indexOf"), !.nullByteIndex = IndexOf(data, 0, 0)]

\* a variant of NullByteGuard that rejects and falls through
NullByteGuardNoReturn(fr) ==
    IF fr.nullByteIndex = -1
    THEN [fr EXCEPT !.st = reject(fr.st, "Invalid Git object format")]
    ELSE fr

\* if (nullByteIndex === -1) return reject(new Error("Invalid Git object format"));
NullByteGuard(fr) ==
    IF fr.nullByteIndex = -1
    THEN [fr EXCEPT !.st = reject(fr.st, "Invalid Git object format"), !.ret = TRUE]
    ELSE fr

\* header and content slices, [type, sizeStr] = header.split(" "), parseInt
HeaderSplit(fr, data) ==
    LET header  == Utf8ToString(BufSlice(data, 0, fr.nullByteIndex))
        body    == BufSliceFrom(data, fr.nullByteIndex + 1)
        tokens  == Split(header, 32)
        sizeStr == IF Len(tokens) >= 2 THEN tokens[2] ELSE UndefinedText
    IN  [fr EXCEPT !.st = Ran(fr.st, "split"), !.header = header, !.content = body,
                   !.type = tokens[1], !.size = ParseInt(sizeStr)]

\* a variant of SizeGuard that compares only when the size is a number
SizeGuardNumericOnly(fr) ==
    LET st == Ran(fr.st, "sizeCheck")
    IN  IF ~fr.size.nan /\ fr.size.val # Len(fr.content)
        THEN [fr EXCEPT !.st = reject(st, "Size mismatch"), !.ret = TRUE]
        ELSE [fr EXCEPT !.st = st]

\* if (size !== content.length) return reject(new Error("Size mismatch"));
\* NaN differs from every number
SizeGuard(fr) ==
    LET st == Ran(fr.st, "sizeCheck")
    IN  IF fr.size.nan \/ fr.size.val # Len(fr.content)
        THEN [fr EXCEPT !.st = reject(st, "Size mismatch"), !.ret = TRUE]
        ELSE [fr EXCEPT !.st = st]

\* the four object kinds of the specification
KnownKinds ==
    {<<98, 108, 111, 98>>, <<116, 114, 101, 101>>,
     <<99, 111, 109, 109, 105, 116>>, <<116, 97, 103>>}

\* a variant of ResolveObject that rejects a type outside KnownKinds
ResolveObjectKnownKindOnly(fr) ==
    IF fr.type \in KnownKinds
    THEN [fr EXCEPT !.st = resolve(Ran(fr.st, "resolve"),
                       [type |-> fr.type, size |-> fr.size.val, content |-> fr.content])]
    ELSE [fr EXCEPT !.st = reject(fr.st, "Unrecognized kind")]

\* resolve({ type, size, content });
ResolveObject(fr) ==
    [fr EXCEPT !.st = resolve(Ran(fr.st, "resolve"),
                  [type |-> fr.type, size |-> fr.size.val, content |-> fr.content])]

\* zlib.inflate's callback, statement by statement
InflateCallback(st, f) ==
    LET f1 == InflateErrGuard(NewFrame(st), f)
        f2 == IF f1.ret THEN f1 ELSE NullByteGuard(LocateNullByte(f1, f.data))
        f3 == IF f2.ret THEN f2 ELSE HeaderSplit(f2, f.data)
        f4 == IF f3.ret THEN f3 ELSE SizeGuard(f3)
        f5 == IF f4.ret THEN f4 ELSE ResolveObject(f4)
    IN  [f5.st EXCEPT !.pc = "done"]

\* a whole decode of the file f at objectPath, as an awaiting caller sees it
RunParseGitObject(objectPath, f) ==
    LET s1 == ReadFileCallback(CallParseGitObject(objectPath), f)
    IN  IF s1.pc = "done" THEN s1 ELSE InflateCallback(s1, f)

(***************************************************************************)
(* Decoder inputs: header texts, with or without the terminator, payloads. *)
(***************************************************************************)
Blob   == <<98, 108, 111, 98>>
Tree   == <<116, 114, 101, 101>>
Commit == <<99, 111, 109, 109, 105, 116>>
Tag    == <<116, 97, 103>>
Bogus  == <<98, 111, 103, 117, 115>>

Headers ==
    { Blob \o <<32, 53>>,                  \* "blob 5"
      Blob \o <<32, 52>>,                  \* "blob 4"
      Tree \o <<32, 53>>,                  \* "tree 5"
      Commit \o <<32, 53>>,                \* "commit 5"
      Tag \o <<32, 53>>,                   \* "tag 5"
      Bogus \o <<32, 53>>,                 \* "bogus 5"
      Blob \o <<53>>,                      \* "blob5"
      Blob,                                \* "blob"
      Blob \o <<32, 53, 97, 98, 99>>,      \* "blob 5abc"
      Blob \o <<32, 97, 98, 99>>,          \* "blob abc"
      Blob \o <<32, 53, 32, 54>>,          \* "blob 5 6"
      Blob \o <<32, 32, 53>>,              \* "blob  5"
      Blob \o <<32, 48, 53>>,              \* "blob 05"
      Blob \o <<32, 43, 53>>,              \* "blob +5"
      Blob \o <<32, 45, 53>>,              \* "blob -5"
      Blob \o <<32, 48>>,                  \* "blob 0"
      Blob \o <<32, 45, 48>>,              \* "blob -0"
      Blob \o <<32>>,                      \* "blob "
      <<32, 53>>,                          \* " 5"
      <<53>>,                              \* "5"
      <<>> }

Payloads ==
    { <<>>,
      <<104, 101, 108, 108, 111>>,         \* "hello"
      <<104, 101, 108, 108>>,              \* "hell"
      <<104, 101, 0, 108, 111>>,           \* a zero byte inside
      <<104, 32, 53, 0, 111>> }            \* a space, a digit and a zero byte inside

\* the streams zlib can hand over: header, terminator or none, payload
Streams ==
    {h \o <<0>> \o p : h \in Headers, p \in Payloads} \cup
    {h \o p : h \in Headers, p \in Payloads}

Files ==
    {[readErr |-> r, inflateErr |-> z, data |-> d] :
        r \in BOOLEAN, z \in BOOLEAN, d \in Streams}

NoFile == [readErr |-> TRUE, inflateErr |-> TRUE, data |-> <<>>]

(***************************************************************************)
(* parseTreeObject: the loop over a tree payload.                          *)
(***************************************************************************)
\* the length of a raw hash: content.slice(offset, offset + 20)
HashLen == 20

\* a variant of TypeStr that compares the modes as numbers
TypeStrNumeric(mode) ==
    LET n == ParseInt(mode)
    IN  IF ~n.nan /\ n.val = 40000 THEN Tree
        ELSE IF ~n.nan /\ n.val = 100644 THEN Blob
        ELSE IF ~n.nan /\ n.val = 100755
             THEN <<98, 108, 111, 98, 32, 40, 101, 120, 101, 99, 117, 116, 97, 98, 108, 101, 41>>
        ELSE IF ~n.nan /\ n.val = 120000 THEN <<115, 121, 109, 108, 105, 110, 107>>
        ELSE IF ~n.nan /\ n.val = 160000
             THEN <<99, 111, 109, 109, 105, 116, 32, 40, 115, 117, 98, 109, 111, 100, 117, 108, 101, 41>>
        ELSE <<117, 110, 107, 110, 111, 119, 110>>

\* the if / else-if chain on mode: "tree", "blob", "blob (executable)",
\* "symlink", "commit (submodule)", "unknown"
TypeStr(mode) ==
    IF mode = <<52, 48, 48, 48, 48>> THEN Tree
    ELSE IF mode = <<49, 48, 48, 54, 52, 52>> THEN Blob
    ELSE IF mode = <<49, 48, 48, 55, 53, 53>>
         THEN <<98, 108, 111, 98, 32, 40, 101, 120, 101, 99, 117, 116, 97, 98, 108, 101, 41>>
    ELSE IF mode = <<49, 50, 48, 48, 48, 48>> THEN <<115, 121, 109, 108, 105, 110, 107>>
    ELSE IF mode = <<49, 54, 48, 48, 48, 48>>
         THEN <<99, 111, 109, 109, 105, 116, 32, 40, 115, 117, 98, 109, 111, 100, 117, 108, 101, 41>>
    ELSE <<117, 110, 107, 110, 111, 119, 110>>

\* `${mode.padEnd(6)} ${typeStr.padEnd(20)} ${hash}    ${name}`
FormatEntry(mode, typeStr, hash, name) ==
    PadEnd(mode, 6) \o <<32>> \o PadEnd(typeStr, 20) \o <<32>> \o hash
        \o <<32, 32, 32, 32>> \o name

\* a variant of ShortHashGuard that only asks for a byte to be left
ShortHashGuardNonEmpty(buf, o) == o >= Len(buf)

\* if (offset + 20 > content.length) break;
ShortHashGuard(buf, o) == o + HashLen > Len(buf)

\* a variant of AfterHash that stops on the last byte of the hash
AfterHashOffByOne(o) == o + HashLen - 1

\* a variant of AfterHash that leaves the cursor at the hash
AfterHashForgotten(o) == o

\* offset += 20;
AfterHash(o) == o + HashLen

\* one pass through the body of the while loop, from cursor o: whether it
\* broke and where, the values offset was assigned, and the entry pushed
TreeBody(buf, o) ==
    LET spaceIndex == IndexOf(buf, 32, o)
        mode       == Utf8ToString(BufSlice(buf, o, spaceIndex))
        o1         == spaceIndex + 1
        nullIndex  == IndexOf(buf, 0, o1)
        name       == Utf8ToString(BufSlice(buf, o1, nullIndex))
        o2         == nullIndex + 1
        hash       == ToHex(BufSlice(buf, o2, o2 + HashLen))
        o3         == AfterHash(o2)
    IN  IF spaceIndex = -1
        THEN [brk |-> "space", offset |-> o, cursors |-> <<>>, entry |-> <<>>]
        ELSE IF nullIndex = -1
        THEN [brk |-> "null", offset |-> o1, cursors |-> <<o1>>, entry |-> <<>>]
        ELSE IF ShortHashGuard(buf, o2)
        THEN [brk |-> "hash", offset |-> o2, cursors |-> <<o1, o2>>, entry |-> <<>>]
        ELSE [brk |-> "none", offset |-> o3, cursors |-> <<o1, o2, o3>>,
              entry |-> FormatEntry(mode, TypeStr(mode), hash, name)]

\* parseTreeObject as a function: what the loop leaves in entries
RECURSIVE TreeEntriesFrom(_, _, _)
TreeEntriesFrom(buf, o, acc) ==
    IF o >= Len(buf) THEN acc
    ELSE LET b == TreeBody(buf, o)
         IN  IF b.brk # "none" THEN acc
             ELSE TreeEntriesFrom(buf, b.offset, Append(acc, b.entry))

\* return entries.join("\n")
parseTreeObject(buf) == Join(TreeEntriesFrom(buf, 0, <<>>), <<10>>)

(***************************************************************************)
(* Tree inputs: well-formed entries and raw chunks.                        *)
(***************************************************************************)
Piece(mode, name, hash) ==
    [kind |-> "entry", mode |-> mode, name |-> name, hash |-> hash, raw |-> <<>>]

Chunk(bytes) ==
    [kind |-> "raw", mode |-> <<>>, name |-> <<>>, hash |-> <<>>, raw |-> bytes]

HRange  == [i \in 1 .. HashLen |-> i - 1]
HZeros  == [i \in 1 .. HashLen |-> 0]
HSpaces == [i \in 1 .. HashLen |-> 32]
HMix    == [i \in 1 .. HashLen |-> IF i % 2 = 1 THEN 32 ELSE 0]
HHigh   == [i \in 1 .. HashLen |-> (171 + 13 * i) % 256]

Pieces ==
    { Piece(<<52, 48, 48, 48, 48>>, <<97>>, HZeros),                \* 40000 a
      Piece(<<49, 48, 48, 54, 52, 52>>, <<104, 46, 116>>, HRange),  \* 100644 h.t
      Piece(<<49, 48, 48, 55, 53, 53>>, <<97, 32, 98>>, HSpaces),   \* 100755 "a b"
      Piece(<<49, 50, 48, 48, 48, 48>>, <<>>, HMix),                \* 120000, no name
      Piece(<<49, 54, 48, 48, 48, 48>>, <<255>>, HHigh),            \* 160000, a name that is not UTF-8
      Piece(<<57, 57, 57, 57, 57>>, <<97>>, HMix),                  \* 99999 a
      Piece(<<>>, <<97>>, HRange),                                  \* the empty mode
      Piece(<<48, 52, 48, 48, 48, 48>>, <<32>>, HSpaces),           \* 040000 " "
      Piece(<<49, 0>>, <<97>>, HZeros),                             \* a zero byte in the mode
      Piece(<<49, 48, 48, 54, 52, 52, 48>>, <<97>>, HHigh) }        \* 1006440: seven characters

Chunks ==
    { Chunk(<<49, 49, 49, 49, 49>>),     \* no space, no zero byte
      Chunk(<<49, 32, 49, 49, 49>>),     \* a space
      Chunk(<<49, 0, 49, 49, 49>>),      \* a zero byte
      Chunk(<<49, 32, 49, 0, 49>>),      \* a space, then a zero byte
      Chunk(<<32, 0>>) }                 \* an empty mode and name, no hash

Encode(p) ==
    IF p.kind = "entry" THEN p.mode \o <<32>> \o p.name \o <<0>> \o p.hash ELSE p.raw

RECURSIVE Flatten(_)
Flatten(ps) == IF Len(ps) = 0 THEN <<>> ELSE Encode(ps[1]) \o Flatten(Tail(ps))

PartSeqs == UNION {[1 .. n -> Pieces \cup Chunks] : n \in 0 .. MaxParts}

(***************************************************************************)
(* Specification SpecDecode: one parseGitObject call on every input.       *)
(***************************************************************************)
IdleTree ==
    /\ parts = <<>> /\ content = <<>> /\ offset = 0 /\ entries = <<>>
    /\ cursors = <<>> /\ tpc = "idle" /\ treeText = <<>>

IdleDecode == file = NoFile /\ dec = NewDecode

NoItem ==
    [kind |-> "none", label |-> <<>>, description |-> <<>>, tooltip |-> <<>>,
     hash |-> <<>>]

NoDocument ==
    [kind |-> "none", scheme |-> "", uriPath |-> <<>>, index |-> 0, hash |-> <<>>,
     objectPath |-> <<>>, error |-> "", text |-> <<>>]

IdleView ==
    /\ disk = <<>> /\ objectsDir = TRUE /\ element = NoItem /\ tasks = <<>>
    /\ items = <<>> /\ children = [state |-> "idle", value |-> <<>>]
    /\ completed = <<>> /\ opened = NoDocument

InitDecode ==
    /\ file \in Files
    /\ dec = NewDecode
    /\ IdleTree /\ IdleView

\* parseGitObject(objectPath): the promise is created, fs.readFile issued
ParseGitObject ==
    /\ dec.pc = "idle"
    /\ dec' = CallParseGitObject(<<>>)
    /\ UNCHANGED <<file, treeVars, viewVars>>

\* fs.readFile calls back
OnReadFile ==
    /\ dec.pc = "readFile"
    /\ dec' = ReadFileCallback(dec, file)
    /\ UNCHANGED <<file, treeVars, viewVars>>

\* zlib.inflate calls back
OnInflate ==
    /\ dec.pc = "inflate"
    /\ dec' = InflateCallback(dec, file)
    /\ UNCHANGED <<file, treeVars, viewVars>>

NextDecode == ParseGitObject \/ OnReadFile \/ OnInflate

SpecDecode == InitDecode /\ [][NextDecode]_vars

(***************************************************************************)
(* Specification SpecTree: parseTreeObject, one loop iteration per step.   *)
(***************************************************************************)
InitTree ==
    /\ parts \in PartSeqs
    /\ content = Flatten(parts)
    /\ offset = 0 /\ entries = <<>> /\ cursors = <<>>
    /\ tpc = "loop" /\ treeText = <<>>
    /\ IdleDecode /\ IdleView

\* an iteration that reaches entries.push
TreeIteration ==
    /\ tpc = "loop" /\ offset < Len(content)
    /\ LET b == TreeBody(content, offset)
       IN  /\ b.brk = "none"
           /\ offset' = b.offset
           /\ cursors' = b.cursors
           /\ entries' = Append(entries, b.entry)
    /\ UNCHANGED <<parts, content, tpc, treeText, decVars, viewVars>>

\* an iteration that leaves the loop at the break named why, and the return
TreeBreak(why) ==
    /\ tpc = "loop" /\ offset < Len(content)
    /\ LET b == TreeBody(content, offset)
       IN  /\ b.brk = why
           /\ offset' = b.offset
           /\ cursors' = b.cursors
    /\ tpc' = "returned"
    /\ treeText' = Join(entries, <<10>>)
    /\ UNCHANGED <<parts, content, entries, decVars, viewVars>>

\* the loop condition fails, and the return
TreeLoopEnd ==
    /\ tpc = "loop" /\ offset >= Len(content)
    /\ tpc' = "returned"
    /\ treeText' = Join(entries, <<10>>)
    /\ UNCHANGED <<parts, content, offset, entries, cursors, decVars, viewVars>>

\* if (spaceIndex === -1) break;
TreeBreakNoSpace == TreeBreak("space")

\* if (nullIndex === -1) break;
TreeBreakNoNull == TreeBreak("null")

\* if (offset + 20 > content.length) break;
TreeBreakShortHash == TreeBreak("hash")

NextTree ==
    \/ TreeIteration
    \/ TreeBreakNoSpace
    \/ TreeBreakNoNull
    \/ TreeBreakShortHash
    \/ TreeLoopEnd

SpecTree == InitTree /\ [][NextTree]_vars

(***************************************************************************)
(* The file system under the workspace root.                               *)
(***************************************************************************)
Slash == <<47>>

\* path.normalize of an absolute path: empty and "." segments are dropped,
\* ".." removes the segment before it
RECURSIVE NormalizeSegments(_, _)
NormalizeSegments(segs, stack) ==
    IF Len(segs) = 0 THEN stack
    ELSE IF segs[1] = <<>> \/ segs[1] = <<46>> THEN NormalizeSegments(Tail(segs), stack)
    ELSE IF segs[1] = <<46, 46>>
         THEN NormalizeSegments(Tail(segs),
                 IF Len(stack) = 0 THEN stack ELSE SubSeq(stack, 1, Len(stack) - 1))
    ELSE NormalizeSegments(Tail(segs), Append(stack, segs[1]))

\* path.join(...) of an absolute first argument: the non-empty arguments are
\* joined with "/" and the result is normalized
PathJoin(args) ==
    LET nonEmpty == SelectSeq(args, LAMBDA a : Len(a) > 0)
        segs     == NormalizeSegments(Split(Join(nonEmpty, Slash), 47), <<>>)
    IN  Slash \o Join(segs, Slash)

\* vscode.workspace.workspaceFolders[0].uri.fsPath
WorkspaceRoot == <<47, 114, 101, 112, 111>>

\* this.gitObjectsPath = path.join(this.workspaceRoot, ".git", "objects")
GitObjectsPath == PathJoin(<<WorkspaceRoot, <<46, 103, 105, 116>>, <<111, 98, 106, 101, 99, 116, 115>>>>)

\* what fs.readdirSync(gitObjectsPath, {withFileTypes: true}) lists
RootEntries ==
    << [name |-> <<48, 102>>, isDirectory |-> TRUE],
       [name |-> <<97, 98>>, isDirectory |-> TRUE],
       [name |-> <<105, 110, 102, 111>>, isDirectory |-> TRUE],
       [name |-> <<112, 97, 99, 107>>, isDirectory |-> TRUE],
       [name |-> <<120, 121>>, isDirectory |-> FALSE] >>

NameAlphabet == <<48, 49, 50, 51, 52, 53, 54, 55, 56, 57, 97, 98, 99, 100, 101, 102>>

\* the name of the i-th file of an object directory: 5, 12, 19, ... characters
FileName(i) == [k \in 1 .. (7 * i - 2) |-> NameAlphabet[((3 * i + 5 * k) % 16) + 1]]

\* what the disk and zlib yield for an object file
ReadFails    == [readErr |-> TRUE, inflateErr |-> FALSE, data |-> <<>>]
InflateFails == [readErr |-> FALSE, inflateErr |-> TRUE, data |-> <<>>]
NoTerminator == [readErr |-> FALSE, inflateErr |-> FALSE, data |-> <<98, 108, 111, 98, 32, 53, 104, 101, 108, 108, 111>>]
WrongSize    == [readErr |-> FALSE, inflateErr |-> FALSE, data |-> <<98, 108, 111, 98, 32, 52>> \o <<0>> \o <<104, 101, 108, 108, 111>>]
GoodBlob     == [readErr |-> FALSE, inflateErr |-> FALSE, data |-> <<98, 108, 111, 98, 32, 53>> \o <<0>> \o <<104, 101, 108, 108, 111>>]
GoodTree     ==
    [readErr |-> FALSE, inflateErr |-> FALSE,
     data |-> <<116, 114, 101, 101, 32, 50, 56>> \o <<0>> \o <<52, 48, 48, 48, 48, 32, 97>> \o <<0>> \o HRange]

FileKinds == {ReadFails, InflateFails, NoTerminator, WrongSize, GoodBlob, GoodTree}

\* every object directory lists the files FileName(1), FileName(2), ...
Listings == UNION {[1 .. n -> FileKinds] : n \in 0 .. MaxFiles}

ObjectDirs ==
    {RootEntries[k].name : k \in {j \in 1 .. Len(RootEntries) : RootEntries[j].isDirectory}}

\* fs.readdirSync(subDir)
ReadDir == [i \in 1 .. Len(disk) |-> FileName(i)]

\* the path of the i-th file of object directory d
ObjectFilePath ==
    [d \in ObjectDirs, i \in 1 .. MaxFiles |-> PathJoin(<<GitObjectsPath, d, FileName(i)>>)]

\* the paths of the object directories
ObjectDirPaths == {PathJoin(<<GitObjectsPath, d>>) : d \in ObjectDirs}

IsObjectFile(path) ==
    /\ objectsDir
    /\ \E d \in ObjectDirs : \E i \in 1 .. Len(disk) : path = ObjectFilePath[d, i]

IsDirectory(path) ==
    \/ path \in {Slash, WorkspaceRoot, PathJoin(<<WorkspaceRoot, <<46, 103, 105, 116>>>>)}
    \/ objectsDir /\ path = GitObjectsPath
    \/ objectsDir /\ path \in ObjectDirPaths

\* fs.existsSync(path)
ExistsSync(path) == IsObjectFile(path) \/ IsDirectory(path)

\* what fs.readFile and zlib.inflate yield for path: reading a directory or
\* a missing file fails
FileAt(path) ==
    IF IsObjectFile(path)
    THEN disk[CHOOSE i \in 1 .. Len(disk) : \E d \in ObjectDirs : path = ObjectFilePath[d, i]]
    ELSE ReadFails

(***************************************************************************)
(* GitObjectTreeDataProvider.getChildren.                                  *)
(***************************************************************************)
\* getChildren(undefined): one collapsed item per two-character directory
RootItems ==
    LET dirs == SelectSeq(RootEntries, LAMBDA e : e.isDirectory /\ Len(e.name) = 2)
    IN  [k \in 1 .. Len(dirs) |->
            [kind |-> "dir", label |-> dirs[k].name, description |-> <<>>,
             tooltip |-> <<>>, hash |-> <<>>]]

\* const subDir = path.join(this.gitObjectsPath, element.label)
SubDir(el) == PathJoin(<<GitObjectsPath, el.label>>)

\* const objectPath = path.join(subDir, file)
TaskPath(el, f) == PathJoin(<<SubDir(el), f>>)

\* the item the async callback of files.map returns for file f once its
\* decode st has settled: the try block, or the catch block
MakeItem(el, f, st) ==
    LET hash == el.label \o f
        type == st.value.type
        size == NumToString(st.value.size)
    IN  IF st.state = "fulfilled"
        THEN [kind |-> "object",
              label |-> Substring(f, 0, 10) \o <<46, 46, 46, 32, 40>> \o type \o <<44, 32>> \o size \o <<98, 41>>,
              description |-> hash,
              tooltip |-> <<84, 121, 112, 101, 58, 32>> \o type \o <<10>> \o <<83, 105, 122, 101, 58, 32>> \o size
                            \o <<32, 98, 121, 116, 101, 115>> \o <<10>> \o <<72, 97, 115, 104, 58, 32>> \o hash,
              hash |-> hash]
        ELSE [kind |-> "error", label |-> f \o <<32, 40, 69, 114, 114, 111, 114, 41>>, description |-> <<>>,
              tooltip |-> <<>>, hash |-> <<>>]

Pending == [kind |-> "pending", label |-> <<>>, description |-> <<>>,
            tooltip |-> <<>>, hash |-> <<>>]

\* a variant of StoreItem that fills the list in completion order
StoreItemInCompletionOrder(its, i, item) ==
    LET k == MinOf({j \in 1 .. Len(its) : its[j].kind = "pending"})
    IN  [its EXCEPT ![k] = item]

\* Promise.all keeps each callback's value at the index of its file
StoreItem(its, i, item) == [its EXCEPT ![i] = item]

AllStored(its) == \A j \in 1 .. Len(its) : its[j].kind # "pending"

\* the decode of file i settled: its callback returns an item, and Promise.all
\* resolves once every callback has
SettleTask(i, st) ==
    LET its == StoreItem(items, i, MakeItem(element, ReadDir[i], st))
    IN  /\ items' = its
        /\ completed' = Append(completed, i)
        /\ children' = IF AllStored(its) THEN [state |-> "resolved", value |-> its]
                       ELSE children

(***************************************************************************)
(* GitObjectContentProvider.provideTextDocumentContent.                    *)
(***************************************************************************)
\* a variant of StripLeadingSlash that drops the first character unasked
StripFirstCharacter(uriPath) == Substring(uriPath, 1, Len(uriPath))

\* uri.path.startsWith("/") ? uri.path.substring(1) : uri.path
StripLeadingSlash(uriPath) ==
    IF Len(uriPath) > 0 /\ uriPath[1] = 47 THEN Substring(uriPath, 1, Len(uriPath))
    ELSE uriPath

\* the git-object-file branch: the hash from the two segments after "objects"
HashFromPath(uriPath) ==
    LET segs         == Split(uriPath, 47)
        objectsIndex == IndexOf(segs, <<111, 98, 106, 101, 99, 116, 115>>, 0)
    IN  IF objectsIndex >= 0 /\ Len(segs) > objectsIndex + 2
        THEN segs[objectsIndex + 2] \o segs[objectsIndex + 3]
        ELSE <<117, 110, 107, 110, 111, 119, 110>>

\* the git-object branch: the object path from the hash's prefix and suffix
PathFromHash(hash) ==
    PathJoin(<<GitObjectsPath, Substring(hash, 0, 2), Substring(hash, 2, Len(hash))>>)

provideTextDocumentContent(scheme, uriPath, index) ==
    LET fromFile   == scheme = "git-object-file"
        hash       == IF fromFile THEN HashFromPath(uriPath) ELSE StripLeadingSlash(uriPath)
        objectPath == IF fromFile THEN uriPath ELSE PathFromHash(hash)
        st         == RunParseGitObject(objectPath, FileAt(objectPath))
        obj        == st.value
        contentStr == IF obj.type = Tree THEN parseTreeObject(obj.content)
                      ELSE Utf8ToString(obj.content)
        doc        == [NoDocument EXCEPT !.scheme = scheme, !.uriPath = uriPath,
                          !.index = index, !.hash = hash, !.objectPath = objectPath]
    IN  IF ~ExistsSync(objectPath)
        THEN [doc EXCEPT !.kind = "notFound",
                 !.text = <<79, 98, 106, 101, 99, 116, 32, 102, 105, 108, 101, 32, 110, 111, 116, 32, 102, 111, 117, 110, 100, 32, 102, 111, 114, 32, 104, 97, 115, 104, 58, 32>> \o hash \o <<10>>
                            \o <<80, 97, 116, 104, 58, 32>> \o objectPath]
        ELSE IF st.state = "rejected"
        THEN [doc EXCEPT !.kind = "error", !.error = st.error]
        ELSE [doc EXCEPT !.kind = "object",
                 !.text = <<79, 98, 106, 101, 99, 116, 32, 84, 121, 112, 101, 58, 32>> \o obj.type \o <<10>> \o <<83, 105, 122, 101, 58, 32>>
                            \o NumToString(obj.size) \o <<32, 98, 121, 116, 101, 115>> \o <<10>> \o <<72, 97, 115, 104, 58, 32>>
                            \o hash \o <<10, 10>> \o contentStr]

(***************************************************************************)
(* Specification SpecView: the tree view and the documents opened from it. *)
(***************************************************************************)
InitView ==
    /\ disk \in Listings
    /\ objectsDir \in BOOLEAN
    /\ element = NoItem /\ tasks = <<>> /\ items = <<>>
    /\ children = [state |-> "idle", value |-> <<>>]
    /\ completed = <<>> /\ opened = NoDocument
    /\ IdleDecode /\ IdleTree

\* getChildren(undefined)
GetChildrenRoot ==
    /\ children.state = "idle"
    /\ children' = [state |-> "root",
                    value |-> IF objectsDir THEN RootItems ELSE <<>>]
    /\ UNCHANGED <<disk, objectsDir, element, tasks, items, completed, opened,
                   decVars, treeVars>>

\* getChildren(element) for a directory item: every file's decode is started
GetChildrenDir(k) ==
    /\ children.state = "root"
    /\ k \in 1 .. Len(children.value)
    /\ objectsDir
    /\ Len(children.value[k].label) = 2
    /\ element' = children.value[k]
    /\ tasks' = [i \in 1 .. Len(ReadDir) |->
                    CallParseGitObject(TaskPath(children.value[k], ReadDir[i]))]
    /\ items' = [i \in 1 .. Len(ReadDir) |-> Pending]
    /\ children' = IF Len(ReadDir) = 0 THEN [state |-> "resolved", value |-> <<>>]
                   ELSE [state |-> "pending", value |-> <<>>]
    /\ UNCHANGED <<disk, objectsDir, completed, opened, decVars, treeVars>>

\* fs.readFile calls back for file i
OnTaskReadFile(i) ==
    /\ tasks[i].pc = "readFile"
    /\ LET st == ReadFileCallback(tasks[i], FileAt(tasks[i].path))
       IN  /\ tasks' = [tasks EXCEPT ![i] = st]
           /\ IF st.pc = "done" THEN SettleTask(i, st)
              ELSE UNCHANGED <<items, completed, children>>
    /\ UNCHANGED <<disk, objectsDir, element, opened, decVars, treeVars>>

\* zlib.inflate calls back for file i
OnTaskInflate(i) ==
    /\ tasks[i].pc = "inflate"
    /\ LET st == InflateCallback(tasks[i], FileAt(tasks[i].path))
       IN  /\ tasks' = [tasks EXCEPT ![i] = st]
           /\ SettleTask(i, st)
    /\ UNCHANGED <<disk, objectsDir, element, opened, decVars, treeVars>>

\* the command git-object-viewer.showObjectContent, run from item i; the host
\* hands the provider the URI path with or without a leading slash.  The
\* provider keeps no state, so a run opens one document.
ShowObjectContent ==
    /\ children.state = "resolved"
    /\ opened.kind = "none"
    /\ \E i \in 1 .. Len(children.value) : \E slash \in BOOLEAN :
          /\ children.value[i].kind = "object"
          /\ LET hash    == children.value[i].hash
                 uriPath == IF slash THEN Slash \o hash ELSE hash
             IN  opened' = provideTextDocumentContent("git-object", uriPath, i)
    /\ UNCHANGED <<disk, objectsDir, element, tasks, items, children, completed,
                   decVars, treeVars>>

\* a file of the workspace that is no Git object
ReadmePath == PathJoin(<<WorkspaceRoot, <<82, 69, 65, 68, 77, 69>>>>)

\* the paths "Open as Git Object" can be run on: the objects directory, a
\* file outside it, the files of the listed directory
OpenablePaths ==
    {GitObjectsPath, ReadmePath} \cup
    {ObjectFilePath[element.label, i] : i \in 1 .. Len(disk)}

\* the command git-object-viewer.openGitObject on a file of the explorer
OpenGitObject ==
    /\ children.state = "resolved"
    /\ opened.kind = "none"
    /\ \E fsPath \in OpenablePaths :
          opened' = provideTextDocumentContent("git-object-file", fsPath, 0)
    /\ UNCHANGED <<disk, objectsDir, element, tasks, items, children, completed,
                   decVars, treeVars>>

NextView ==
    \/ GetChildrenRoot
    \/ \E k \in 1 .. Len(RootItems) : GetChildrenDir(k)
    \/ \E i \in 1 .. Len(tasks) : OnTaskReadFile(i)
    \/ \E i \in 1 .. Len(tasks) : OnTaskInflate(i)
    \/ ShowObjectContent
    \/ OpenGitObject

SpecView == InitView /\ [][NextView]_vars

(***************************************************************************)
(* Properties of parseGitObject (SpecDecode).                              *)
(***************************************************************************)
\* the decode got a decompressed stream holding a zero byte
Delivered == ~file.readErr /\ ~file.inflateErr

HasTerminator == IndexOf(file.data, 0, 0) # -1

\* the number of bytes after the first zero byte
BytesAfterTerminator == Len(file.data) - IndexOf(file.data, 0, 0) - 1

\* the header: the text before the first zero byte
HeaderText == Utf8ToString(SubSeq(file.data, 1, IndexOf(file.data, 0, 0)))

HeaderHasSpace == IndexOf(HeaderText, 32, 0) # -1

\* the type token: the header text before its first space
TypeToken ==
    IF HeaderHasSpace THEN SubSeq(HeaderText, 1, IndexOf(HeaderText, 32, 0))
    ELSE HeaderText

\* the size token: everything after the header's first space
SizeToken == SubSeq(HeaderText, IndexOf(HeaderText, 32, 0) + 2, Len(HeaderText))

\* the integer the size token parses to, if any
DeclaredSize == IF HeaderHasSpace THEN ParseInt(SizeToken) ELSE [nan |-> TRUE, val |-> 0]

IsDecimal(str) == Len(str) > 0 /\ \A i \in 1 .. Len(str) : IsDigit(str[i])

Settled == dec.pc = "done"

\* C1: an object is returned only when the number of bytes after the first zero
\* byte equals the integer parsed from the size token, and then it carries
\* exactly those bytes and that size; when the two differ, or the size token
\* parses to no number, the decode rejects with "Size mismatch" and resolve is
\* never called.
C1_SizeInvariant ==
    (Settled /\ Delivered /\ HasTerminator) =>
        /\ dec.state = "fulfilled" =>
              /\ ~DeclaredSize.nan
              /\ DeclaredSize.val = BytesAfterTerminator
              /\ dec.value.size = Len(dec.value.content)
              /\ dec.value.size = BytesAfterTerminator
              /\ dec.value.content =
                    SubSeq(file.data, Len(file.data) - BytesAfterTerminator + 1, Len(file.data))
        /\ (DeclaredSize.nan \/ DeclaredSize.val # BytesAfterTerminator) =>
              /\ dec.state = "rejected"
              /\ dec.error = "Size mismatch"
              /\ dec.resolveCalls = 0

\* "blob 5" and five bytes: an object of size 5 is returned
C1_Witness ==
    /\ Settled /\ Delivered /\ HasTerminator
    /\ dec.state = "fulfilled"
    /\ dec.value.size = 5 /\ Len(dec.value.content) = 5

\* a header whose size token parses to no number is rejected by the size check
C1_WitnessNaN ==
    /\ Settled /\ Delivered /\ HasTerminator
    /\ DeclaredSize.nan
    /\ dec.state = "rejected" /\ dec.error = "Size mismatch"

\* C2 (as claimed): a header without a space, or whose size token is not a
\* decimal number, fails with a malformed-header error, which is not the
\* size-mismatch error, and no object is returned.
C2_MalformedHeaderRejected ==
    (Settled /\ Delivered /\ HasTerminator
        /\ (~HeaderHasSpace \/ ~IsDecimal(SizeToken))) =>
        /\ dec.state = "rejected"
        /\ dec.error # "Size mismatch"

\* C2, its second half alone: no object is returned for such a header
C2_NoObjectForMalformedHeader ==
    (Settled /\ Delivered /\ HasTerminator
        /\ (~HeaderHasSpace \/ ~IsDecimal(SizeToken))) =>
        dec.state = "rejected"

\* C3 (as claimed): a returned object's type is blob, tree, commit or tag.
C3_OnlyKnownKinds ==
    (Settled /\ dec.state = "fulfilled") => dec.value.type \in KnownKinds

\* C3 (amended): the type token is not validated.  A returned object's type is
\* the header text before the first space, whatever it is; and a header
\* "<type> <decimal>" whose decimal equals the payload length returns an
\* object for every type token.
C3_RawTypeToken ==
    (Settled /\ Delivered /\ HasTerminator) =>
        /\ dec.state = "fulfilled" => dec.value.type = TypeToken
        /\ (HeaderHasSpace /\ IsDecimal(SizeToken)
                /\ DigitsValue(SizeToken) = BytesAfterTerminator) =>
              /\ dec.state = "fulfilled"
              /\ dec.value.type = TypeToken

\* "bogus 5" and five bytes: an object of type "bogus" is returned
C3_Witness ==
    /\ Settled /\ dec.state = "fulfilled"
    /\ dec.value.type = Bogus
    /\ dec.value.size = 5

LaterSteps == {"indexOf", "split", "sizeCheck", "resolve"}

\* C8: a decode in flight has called neither resolve nor reject and can go
\* on; a finished decode has called exactly one of them, once; a read error,
\* an inflate error and a stream without a zero byte each reject, and the
\* steps after the failed one have not run.
C8_ExactlyOneOutcome ==
    /\ ~Settled =>
          /\ dec.resolveCalls + dec.rejectCalls = 0
          /\ dec.state = "pending"
          /\ dec.pc \in {"idle", "readFile", "inflate"}   \* a step is enabled
    /\ Settled =>
          /\ dec.resolveCalls + dec.rejectCalls = 1
          /\ dec.state = "fulfilled" <=> dec.resolveCalls = 1
          /\ dec.state = "rejected" <=> dec.rejectCalls = 1
          /\ file.readErr =>
                /\ dec.state = "rejected" /\ dec.error = "read error"
                /\ dec.steps \cap (LaterSteps \cup {"inflate"}) = {}
          /\ (~file.readErr /\ file.inflateErr) =>
                /\ dec.state = "rejected" /\ dec.error = "inflate error"
                /\ dec.steps \cap LaterSteps = {}
          /\ (Delivered /\ ~HasTerminator) =>
                /\ dec.state = "rejected"
                /\ dec.error = "Invalid Git object format"
                /\ dec.steps \cap {"split", "sizeCheck", "resolve"} = {}

\* a stream without a zero byte was rejected
C8_Witness ==
    /\ Settled /\ Delivered /\ ~HasTerminator
    /\ Len(file.data) > 0
    /\ dec.state = "rejected" /\ dec.rejectCalls = 1

(***************************************************************************)
(* Properties of parseTreeObject (SpecTree).                               *)
(***************************************************************************)
Returned == tpc = "returned"

IsWellFormed(p) ==
    /\ p.kind = "entry"
    /\ \A i \in 1 .. Len(p.mode) : p.mode[i] # 32
    /\ \A i \in 1 .. Len(p.name) : p.name[i] # 0
    /\ Len(p.hash) = HashLen

\* the number of leading well-formed entries of the input
RECURSIVE LeadingEntries(_)
LeadingEntries(ps) ==
    IF Len(ps) > 0 /\ IsWellFormed(ps[1]) THEN 1 + LeadingEntries(Tail(ps)) ELSE 0

AllEntries(ps) == LeadingEntries(ps) = Len(ps)

\* the input is N entries followed by raw bytes only, and how many bytes
TrailingOnly(ps) == \A i \in (LeadingEntries(ps) + 1) .. Len(ps) : ps[i].kind = "raw"

RECURSIVE RawLength(_)
RawLength(ps) ==
    IF Len(ps) = 0 THEN 0
    ELSE (IF ps[1].kind = "raw" THEN Len(ps[1].raw) ELSE 0) + RawLength(Tail(ps))

HexAlphabet == <<48, 49, 50, 51, 52, 53, 54, 55, 56, 57, 97, 98, 99, 100, 101, 102>>

\* the 40 lowercase hexadecimal characters of a hash, by table lookup
HexOf(hash) ==
    [i \in 1 .. (2 * Len(hash)) |->
        LET b == hash[(i + 1) \div 2]
        IN  HexAlphabet[(IF i % 2 = 1 THEN b \div 16 ELSE b % 16) + 1]]

\* the width of the mode column of a line
ModeWidth(mode) == IF Len(mode) < 6 THEN 6 ELSE Len(mode)

\* a line of the listing carries piece p: its mode at the start, padded, its
\* hash in hexadecimal in the third column, its name at the end
Carries(line, p) ==
    LET mode == Utf8ToString(p.mode)
        w    == ModeWidth(mode)
    IN  /\ Len(line) = w + 66 + Len(p.name)
        /\ SubSeq(line, 1, Len(mode)) = mode
        /\ \A i \in (Len(mode) + 1) .. (w + 1) : line[i] = 32
        /\ SubSeq(line, w + 23, w + 62) = HexOf(p.hash)
        /\ \A i \in (w + 63) .. (w + 66) : line[i] = 32
        /\ SubSeq(line, w + 67, Len(line)) = Utf8ToString(p.name)

\* C4: a payload that is N well-formed entries yields exactly N lines, the
\* i-th carrying the i-th entry's mode, name and hexadecimal hash.
C4_EntriesInOrder ==
    (Returned /\ AllEntries(parts)) =>
        /\ Len(entries) = Len(parts)
        /\ \A i \in 1 .. Len(parts) : Carries(entries[i], parts[i])
        /\ treeText = Join(entries, <<10>>)

\* two different entries, the first with a hash full of spaces and zero bytes
C4_Witness ==
    /\ Returned /\ AllEntries(parts)
    /\ Len(parts) = 2 /\ parts[1] # parts[2]
    /\ parts[1].hash = HMix
    /\ Len(entries) = 2

\* C5: N well-formed entries followed by fewer bytes than a hash holds yield
\* exactly the N entries, unchanged and in order.
C5_TrailingBytesDropped ==
    (Returned /\ TrailingOnly(parts) /\ LeadingEntries(parts) < Len(parts)
        /\ RawLength(parts) < HashLen) =>
        /\ Len(entries) = LeadingEntries(parts)
        /\ \A i \in 1 .. LeadingEntries(parts) : Carries(entries[i], parts[i])

\* one entry, then five bytes holding a space and a zero byte
C5_Witness ==
    /\ Returned
    /\ Len(parts) = 2 /\ IsWellFormed(parts[1])
    /\ parts[2] = Chunk(<<49, 32, 49, 0, 49>>)
    /\ Len(entries) = 1

\* the classification table of the specification
ModeTable ==
    { <<<<52, 48, 48, 48, 48>>, <<116, 114, 101, 101>>>>,
      <<<<49, 48, 48, 54, 52, 52>>, <<98, 108, 111, 98>>>>,
      <<<<49, 48, 48, 55, 53, 53>>,
        <<98, 108, 111, 98, 32, 40, 101, 120, 101, 99, 117, 116, 97, 98, 108, 101, 41>>>>,
      <<<<49, 50, 48, 48, 48, 48>>, <<115, 121, 109, 108, 105, 110, 107>>>>,
      <<<<49, 54, 48, 48, 48, 48>>,
        <<99, 111, 109, 109, 105, 116, 32, 40, 115, 117, 98, 109, 111, 100, 117, 108, 101, 41>>>> }

Classification(mode) ==
    IF \E row \in ModeTable : row[1] = mode
    THEN (CHOOSE row \in ModeTable : row[1] = mode)[2]
    ELSE <<117, 110, 107, 110, 111, 119, 110>>

\* the mode of a line: its text before the first space
LineMode(line) == SubSeq(line, 1, IndexOf(line, 32, 0))

\* the classification column of a line, without its padding
LineClass(line) ==
    LET w   == ModeWidth(LineMode(line))
        col == SubSeq(line, w + 2, w + 21)
        end == CHOOSE k \in 0 .. 20 :
                  /\ \A i \in (k + 1) .. 20 : col[i] = 32
                  /\ \A j \in (k + 1) .. 20 : \E i \in j .. 20 : col[i] = 32
                  /\ (k > 0 => col[k] # 32)
    IN  SubSeq(col, 1, end)

IsAscii(bytes) == \A i \in 1 .. Len(bytes) : bytes[i] < 128

\* C6: every emitted line is classified by exact match of its mode against
\* the table, "unknown" otherwise; an entry with an unlisted mode is still
\* emitted, and its mode token is in the line as it was in the payload.
C6_ModeClassification ==
    /\ \A i \in 1 .. Len(entries) :
          LineClass(entries[i]) = Classification(LineMode(entries[i]))
    /\ (Returned /\ AllEntries(parts)) =>
          /\ Len(entries) = Len(parts)
          /\ \A i \in 1 .. Len(parts) :
                /\ LineMode(entries[i]) = Utf8ToString(parts[i].mode)
                /\ IsAscii(parts[i].mode) => LineMode(entries[i]) = parts[i].mode
                /\ LineClass(entries[i]) = Classification(Utf8ToString(parts[i].mode))

\* 040000 is unknown and 40000 is a tree, in one listing
C6_Witness ==
    /\ Returned /\ Len(parts) = 2 /\ Len(entries) = 2
    /\ parts[1].mode = <<48, 52, 48, 48, 48, 48>>
    /\ parts[2].mode = <<52, 48, 48, 48, 48>>
    /\ LineClass(entries[1]) = <<117, 110, 107, 110, 111, 119, 110>>
    /\ LineClass(entries[2]) = <<116, 114, 101, 101>>

\* the fewest bytes of an entry: a space, a zero byte and a hash
MinEntryLen == HashLen + 2

C9_CursorInRange ==
    /\ 0 <= offset /\ offset <= Len(content)
    /\ \A i \in 1 .. Len(cursors) : 0 <= cursors[i] /\ cursors[i] <= Len(content)
    /\ Len(entries) * MinEntryLen <= Len(content)

C9_Advance ==
    /\ offset' >= offset
    /\ Len(entries') > Len(entries) => offset' >= offset + MinEntryLen
    /\ Len(entries') = Len(entries) => tpc' = "returned"

\* C9: the cursor stays within the payload and at most floor(length / 22)
\* entries are produced; an iteration that does not break advances the cursor
\* by at least 22 bytes and adds an entry, and every other step ends the
\* loop: the loop runs at most floor(length / 22) + 1 times.
C9_Terminates ==
    /\ []C9_CursorInRange
    /\ [][C9_Advance]_vars

\* a payload that starts with raw bytes: one iteration ran out of step with
\* the entries, then the loop broke before the end of the payload
C9_Witness ==
    /\ Returned /\ Len(entries) = 1
    /\ Len(parts) = 2 /\ parts[1].kind = "raw"
    /\ offset < Len(content)
    /\ Len(cursors) > 0

(***************************************************************************)
(* Properties of the tree view and the content provider (SpecView).        *)
(***************************************************************************)
Listed == children.state = "resolved" /\ element.kind = "dir"

\* the files whose read, inflate or header check fails
Fails(f) == f \in {ReadFails, InflateFails, NoTerminator, WrongSize}

\* the item of file i had its decode been the only one
ItemAlone(i) ==
    MakeItem(element, FileName(i),
             RunParseGitObject(TaskPath(element, FileName(i)), disk[i]))

\* C7: whatever the order in which the decodes finish, and whichever of
\* them fail, an item stored for file i is the item of file i decoded alone;
\* the resolved list has one item per file in listing order, an "(Error)"
\* item exactly for the files whose decode fails.
C7_OneItemPerFile ==
    /\ \A i \in 1 .. Len(items) :
          items[i].kind # "pending" => items[i] = ItemAlone(i)
    /\ Listed =>
          /\ Len(children.value) = Len(disk)
          /\ \A i \in 1 .. Len(disk) :
                /\ children.value[i] = ItemAlone(i)
                /\ Fails(disk[i]) =>
                      /\ children.value[i].kind = "error"
                      /\ children.value[i].label = FileName(i) \o <<32, 40, 69, 114, 114, 111, 114, 41>>
                /\ ~Fails(disk[i]) =>
                      /\ children.value[i].kind = "object"
                      /\ children.value[i].hash = element.label \o FileName(i)

\* the second file's decode finished first and succeeded, the first one failed
C7_Witness ==
    /\ Listed /\ Len(disk) = 2
    /\ completed = <<2, 1>>
    /\ children.value[1].kind = "error"
    /\ children.value[2].kind = "object"

\* C10: a document opened from the item of file f of directory d, with or
\* without a leading slash in the URI path, has the hash d+f, reads the file
\* objects/d/f, the one getChildren decoded for that item, and shows d+f as
\* its Hash.
C10_HashRoundTrip ==
    opened.scheme = "git-object" =>
        LET d      == element.label
            f      == FileName(opened.index)
            obj    == tasks[opened.index].value
            header == <<79, 98, 106, 101, 99, 116, 32, 84, 121, 112, 101, 58, 32>> \o obj.type \o <<10>> \o <<83, 105, 122, 101, 58, 32>>
                        \o NumToString(obj.size) \o <<32, 98, 121, 116, 101, 115>> \o <<10>> \o <<72, 97, 115, 104, 58, 32>>
                        \o d \o f \o <<10, 10>>
        IN  /\ opened.hash = d \o f
            /\ opened.objectPath = tasks[opened.index].path
            /\ opened.objectPath = GitObjectsPath \o Slash \o d \o Slash \o f
            /\ opened.kind = "object"
            /\ SubSeq(opened.text, 1, Len(header)) = header

\* the second item was opened through a URI path with a leading slash
C10_Witness ==
    /\ opened.scheme = "git-object" /\ opened.kind = "object"
    /\ opened.index = 2
    /\ opened.uriPath[1] = 47

\* the second item was opened through a URI path without a leading slash
C10_WitnessNoSlash ==
    /\ opened.scheme = "git-object" /\ opened.kind = "object"
    /\ opened.index = 2
    /\ opened.uriPath[1] # 47

====
